---- MODULE Spec2Model ----
(***************************************************************************)
(* Model of aigen.generate (src/aigen/aigen.py): tokenisation and the      *)
(* context-limit assertion, BOS prepending, seeding of the global random   *)
(* state, the rnn forward call, and the decode / strip / filter / retry    *)
(* loop.  The tokenizer, the model runtime and the seed helpers are        *)
(* external collaborators; they are modelled by their interface.           *)
(*                                                                         *)
(* Optional values (Python None or a value) are sequences of length 0 or 1.*)
(* Texts are sequences of one-character strings.                           *)
(***************************************************************************)
EXTENDS Integers, Sequences, FiniteSets, TLC

\* ---------------------------------------------------------------- bounds
MaxCtx == 2
MaxOutLen == 2
MaxCalls == 4
RngPeriod == 2
MemPeriod == 2
MaxLayers == 2

\* ------------------------------------------------------------- vocabulary
None == <<>>
Some(v) == <<v>>

BosId == 0
SpaceId == 1
LetterId == 2

Whitespace == {" ", "\t", "\n"}
OutTokens == {SpaceId, LetterId}

SeqsUpTo(S, n) == UNION {[1..k -> S] : k \in 0..n}

\* prompts below, at and above the context limit
Prompts == SeqsUpTo({"a"}, MaxCtx + 1)
TokenSeqs == SeqsUpTo(OutTokens, MaxOutLen)
\* model.generate returns one sequence per requested return sequence
\* (num_return_sequences, passed through **kwargs)
NumReturnSequences == {1, 2}
Results == UNION {[1..k -> TokenSeqs] : k \in NumReturnSequences}

Seeds == {None, Some(0), Some(1)}
MinLengths == {None, Some(0), Some(1)}
OptBools == {None, Some(TRUE), Some(FALSE)}
Modes == {"transformer", "rnn"}

\* the signature of generate (lines 280-297) with its defaults
DefaultArgs == [prompt |-> <<>>, prepend_bos |-> None, min_length |-> None,
                seed |-> None, lstrip |-> TRUE, nonempty_output |-> TRUE,
                mode |-> "transformer"]

\* calls that vary what is handed to the decoder, with the default
\* post-processing ...
InputArgs ==
    {[DefaultArgs EXCEPT !.prompt = p, !.prepend_bos = b, !.seed = s, !.mode = m] :
        p \in Prompts, b \in OptBools, s \in Seeds, m \in Modes}

\* ... and calls that vary the post-processing, with the default prepend_bos
\* and mode
OutputArgs ==
    {[DefaultArgs EXCEPT !.prompt = p, !.min_length = n, !.seed = s, !.lstrip = l,
                         !.nonempty_output = e] :
        p \in SeqsUpTo({"a"}, 1), n \in MinLengths, s \in Seeds,
        l \in BOOLEAN, e \in BOOLEAN}

Args == InputArgs \cup OutputArgs

\* texts given to SingleStoppingCriteria and produced under it
StopTexts == SeqsUpTo({" ", "a"}, MaxOutLen)

\* train(...): the arguments that reach lines 523-584, 622 and 741, and the
\* line_by_line attribute of train_data
OptLayers == {None} \cup {Some(n) : n \in 0..MaxLayers}
DefaultTrainArgs == [num_layers_freeze |-> None, seed |-> None, line_by_line |-> FALSE]
TrainArgs == [num_layers_freeze : OptLayers, seed : Seeds, line_by_line : BOOLEAN]
\* self.model.config.n_layer / num_layers / num_hidden_layers
n_layer == MaxLayers

\* Python truthiness of an Optional[int] / Optional[bool]
TruthyInt(o) == o # None /\ o[1] # 0
TruthyBool(o) == o # None /\ o[1]

\* ------------------------------------------------------------- tokenizer
\* self.tokenizer(text=prompt): one token per character
CharToId(c) == IF c \in Whitespace THEN SpaceId ELSE LetterId
Tokenize(text) == [i \in 1..Len(text) |-> CharToId(text[i])]

\* self.tokenizer.batch_decode(sequences, skip_special_tokens=True)
IdToChar(t) == IF t = SpaceId THEN " " ELSE "a"
RECURSIVE Detokenize(_)
Detokenize(ids) ==
    IF ids = <<>> THEN <<>>
    ELSE IF Head(ids) = BosId THEN Detokenize(Tail(ids))
    ELSE <<IdToChar(Head(ids))>> \o Detokenize(Tail(ids))
batch_decode(seqs) == [i \in 1..Len(seqs) |-> Detokenize(seqs[i])]

\* self.tokenizer.decode(ids): special tokens are kept, "<" stands for the
\* text of the BOS token
decode(ids) == [i \in 1..Len(ids) |-> IF ids[i] = BosId THEN "<" ELSE IdToChar(ids[i])]

\* text.replace(old, ""): every occurrence of old, left to right, is removed
RECURSIVE str_replace(_, _)
str_replace(text, old) ==
    IF old = <<>> \/ Len(text) < Len(old) THEN text
    ELSE IF SubSeq(text, 1, Len(old)) = old
         THEN str_replace(SubSeq(text, Len(old) + 1, Len(text)), old)
         ELSE <<Head(text)>> \o str_replace(Tail(text), old)

\* sub in text
Contains(sub, text) ==
    \E i \in 0..(Len(text) - Len(sub)) : SubSeq(text, i + 1, i + Len(sub)) = sub

\* ----------------------------------------------------- generate: helpers
AssertHoldsOffByOne(numTokens) == numTokens <= MaxCtx

\* the assert of lines 318-320
AssertHolds(numTokens) == numTokens < MaxCtx

BosRequiredEither(prepend_bos, lbl) == TruthyBool(prepend_bos) \/ TruthyBool(lbl)

\* lines 326-329
BosRequired(prepend_bos, lbl) ==
    IF prepend_bos = None THEN TruthyBool(lbl) ELSE TruthyBool(prepend_bos)

BuildInputIdsDoubleBos(prompt, prepend_bos, lbl) ==
    LET ids == IF prompt # <<>> THEN Some(Tokenize(prompt)) ELSE None
    IN  IF BosRequired(prepend_bos, lbl)
        THEN IF prompt # <<>> THEN Some(<<BosId, BosId>> \o ids[1]) ELSE Some(<<BosId>>)
        ELSE ids

\* lines 322-334: None, or the tensor handed to model.generate
BuildInputIds(prompt, prepend_bos, lbl) ==
    LET ids == IF prompt # <<>> THEN Some(Tokenize(prompt)) ELSE None
    IN  IF BosRequired(prepend_bos, lbl)
        THEN IF prompt # <<>> THEN Some(<<BosId>> \o ids[1]) ELSE Some(<<BosId>>)
        ELSE ids

\* the guard of lines 336 and 391
SeedGuard(seed) == TruthyInt(seed)

lstrip_one(t) == IF t # <<>> /\ Head(t) \in Whitespace THEN Tail(t) ELSE t

\* re.sub(r"^\s+", "", text)
RECURSIVE lstrip_text(_)
lstrip_text(t) ==
    IF t # <<>> /\ Head(t) \in Whitespace THEN lstrip_text(Tail(t)) ELSE t

KeepTextAtLeast(t, min_length) ==
    IF TruthyInt(min_length) THEN Len(t) >= min_length[1] ELSE Len(t) >= 0

KeepTextIgnoreMin(t, min_length) == Len(t) > 0

\* the two filter lambdas of lines 381-384
KeepText(t, min_length) ==
    IF TruthyInt(min_length) THEN Len(t) > min_length[1] ELSE Len(t) > 0

\* lines 376-384
StripTexts(texts, a) ==
    IF a.lstrip THEN [i \in 1..Len(texts) |-> lstrip_text(texts[i])] ELSE texts
FilterTextsKeepAll(texts, a) == texts

FilterTexts(texts, a) ==
    IF a.nonempty_output
    THEN SelectSeq(texts, LAMBDA t : KeepText(t, a.min_length))
    ELSE texts

\* ------------------------------------------------- external collaborators
\* utils.set_seed / utils.reset_seed: the process-wide random state
Entropy == [seeded |-> FALSE, seed |-> 0, draws |-> 0]
set_seed(s) == [seeded |-> TRUE, seed |-> s, draws |-> 0]
reset_seed == Entropy

\* self.model(inputs, state=...).state
Forward(inputs, state) ==
    Some((Len(inputs) + (IF state = None THEN 0 ELSE state[1] + 1)) % MemPeriod)

\* self.model.generate under a seeded random state: a deterministic function
\* of its inputs and of the random state
SeededCandidate(h) ==
    [i \in 1..(h % (MaxOutLen + 1)) |-> IF (h + i) % 2 = 0 THEN SpaceId ELSE LetterId]
SeededOutput(r, ids, state) ==
    LET h == 3 * r.seed + r.draws
             + (IF ids = None THEN 0 ELSE Len(ids[1]))
             + (IF state = None THEN 0 ELSE state[1] + 1)
    IN  IF h % 2 = 0 THEN <<SeededCandidate(h)>>
        ELSE <<SeededCandidate(h), SeededCandidate(h + 1)>>
Advance(r) == [r EXCEPT !.draws = (r.draws + 1) % RngPeriod]

\* what the decoder may return in the current random state
DecoderResults(r, ids, state) ==
    IF r.seeded THEN {SeededOutput(r, ids, state)} ELSE Results

OnErrorRetry(e) == [pc |-> "loop", err |-> "none"]

\* an exception leaving generate: no try/except anywhere in the method
OnError(e) == [pc |-> "raised", err |-> e]

Bump(n) == IF n < MaxCalls THEN n + 1 ELSE n

\* ------------------------------------------------------------------ state
VARIABLES pc, args, input_ids, outputs, gen_texts, ret, err, thrown,
          memory, rng, line_by_line,
          genCalls, fwdCalls, seedCalls, resetCalls, nFiltered, passedState,
          repeat, prevRet,
          criteria, stop_pc, stop_ids, stop_ret,
          train_pc, train_args, freeze_layers, train_err, fitCalls

vars == <<pc, args, input_ids, outputs, gen_texts, ret, err, thrown,
          memory, rng, line_by_line,
          genCalls, fwdCalls, seedCalls, resetCalls, nFiltered, passedState,
          repeat, prevRet,
          criteria, stop_pc, stop_ids, stop_ret,
          train_pc, train_args, freeze_layers, train_err, fitCalls>>

frame == <<args, input_ids, outputs, gen_texts, ret, err, thrown>>
counters == <<genCalls, fwdCalls, seedCalls, resetCalls, nFiltered, passedState>>
object == <<memory, line_by_line>>
pair == <<repeat, prevRet>>
generation == <<pc, frame, counters, pair>>
stopping == <<criteria, stop_pc, stop_ids, stop_ret>>
training == <<train_pc, train_args, freeze_layers, train_err, fitCalls>>

Init ==
    /\ pc = "idle"
    /\ args = DefaultArgs
    /\ input_ids = None
    /\ outputs = <<>>
    /\ gen_texts = <<>>
    /\ ret = None
    /\ err = "none"
    /\ thrown = "none"
    /\ memory = None
    /\ rng = Entropy
    /\ line_by_line \in OptBools
    /\ genCalls = 0
    /\ fwdCalls = 0
    /\ seedCalls = 0
    /\ resetCalls = 0
    /\ nFiltered = 0
    /\ passedState = None
    /\ repeat = FALSE
    /\ prevRet = None
    /\ criteria = [target_sequence |-> <<>>, prompt |-> <<>>]
    /\ stop_pc = "new"
    /\ stop_ids = <<>>
    /\ stop_ret = None
    /\ train_pc = "idle"
    /\ train_args = DefaultTrainArgs
    /\ freeze_layers = None
    /\ train_err = "none"
    /\ fitCalls = 0

\* line 387: nothing left after cleanup, try again
MustRetry(kept) == Len(kept) = 0

\* number of decoder results of the call that the length test of the claims
\* leaves empty (observation, updated when model.generate returns)
LengthOk(t, a) ==
    \/ ~a.nonempty_output
    \/ /\ a.min_length # None => Len(t) > a.min_length[1]
       /\ a.min_length = None => Len(t) >= 1
Cleaned(out, a) ==
    [i \in 1..Len(out) |->
        IF a.lstrip THEN lstrip_text(Detokenize(out[i])) ELSE Detokenize(out[i])]
SurvivorIdx(out, a) == {i \in 1..Len(out) : LengthOk(Cleaned(out, a)[i], a)}
HasSurvivor(out, a) == SurvivorIdx(out, a) # {}
FirstSurvivor(out, a) ==
    Cleaned(out, a)[CHOOSE i \in SurvivorIdx(out, a) :
                        \A j \in SurvivorIdx(out, a) : i <= j]

\* ---------------------------------------------------------------- actions
\* lines 314-334 with the tokenizer call succeeding
Call(a) ==
    /\ args' = a
    /\ IF a.prompt # <<>> /\ ~AssertHolds(Len(Tokenize(a.prompt)))
       THEN /\ pc' = OnError("AssertionError").pc
            /\ err' = OnError("AssertionError").err
            /\ input_ids' = None
       ELSE /\ pc' = "seed"
            /\ err' = "none"
            /\ input_ids' = BuildInputIds(a.prompt, a.prepend_bos, line_by_line)
    /\ outputs' = <<>>
    /\ gen_texts' = <<>>
    /\ ret' = None
    /\ thrown' = "none"
    /\ genCalls' = 0
    /\ fwdCalls' = 0
    /\ seedCalls' = 0
    /\ resetCalls' = 0
    /\ nFiltered' = 0
    /\ passedState' = None
    /\ UNCHANGED <<object, rng>>
    /\ UNCHANGED <<stopping, training>>

\* generate(**a) called on the object
Start(a) ==
    /\ pc = "idle"
    /\ Call(a)
    /\ repeat' = FALSE
    /\ prevRet' = None

\* line 314: the tokenizer raises
StartTokenizerError(a) ==
    /\ pc = "idle"
    /\ args' = a
    /\ thrown' = "TokenizerError"
    /\ pc' = OnError(thrown').pc
    /\ err' = OnError(thrown').err
    /\ UNCHANGED <<input_ids, outputs, gen_texts, ret, object, rng, counters, pair>>
    /\ UNCHANGED <<stopping, training>>

\* generate called again with the arguments of the call that just returned
Repeat ==
    /\ pc = "returned"
    /\ ~repeat
    /\ Call(args)
    /\ repeat' = TRUE
    /\ prevRet' = ret

\* lines 336-337
SetSeed ==
    /\ pc = "seed"
    /\ IF SeedGuard(args.seed)
       THEN /\ rng' = set_seed(args.seed[1])
            /\ seedCalls' = Bump(seedCalls)
       ELSE UNCHANGED <<rng, seedCalls>>
    /\ pc' = "mode"
    /\ UNCHANGED <<frame, object, genCalls, fwdCalls, resetCalls, nFiltered,
                   passedState, pair>>
    /\ UNCHANGED <<stopping, training>>

\* lines 339-349 (self.mode is written here and read nowhere)
SetMode ==
    /\ pc = "mode"
    /\ IF args.mode \in {"rnn"}
       THEN /\ memory' = Forward(Tokenize(args.prompt), memory)
            /\ fwdCalls' = Bump(fwdCalls)
       ELSE UNCHANGED <<memory, fwdCalls>>
    /\ pc' = "loop"
    /\ UNCHANGED <<frame, line_by_line, rng, genCalls, seedCalls, resetCalls,
                   nFiltered, passedState, pair>>
    /\ UNCHANGED <<stopping, training>>

\* lines 344-349: the forward call raises
SetModeError ==
    /\ pc = "mode"
    /\ args.mode \in {"rnn"}
    /\ fwdCalls' = Bump(fwdCalls)
    /\ thrown' = "ModelError"
    /\ pc' = OnError(thrown').pc
    /\ err' = OnError(thrown').err
    /\ UNCHANGED <<args, input_ids, outputs, gen_texts, ret, memory,
                   line_by_line, rng, genCalls, seedCalls, resetCalls,
                   nFiltered, passedState, pair>>
    /\ UNCHANGED <<stopping, training>>

\* lines 358-374: model.generate, then batch_decode
Decode ==
    /\ pc = "loop"
    /\ \E out \in DecoderResults(rng, input_ids, memory) :
          /\ outputs' = out
          /\ gen_texts' = batch_decode(out)
          /\ nFiltered' = IF HasSurvivor(out, args) THEN nFiltered
                          ELSE Bump(nFiltered)
    /\ genCalls' = Bump(genCalls)
    /\ passedState' = memory
    /\ rng' = IF rng.seeded THEN Advance(rng) ELSE rng
    /\ pc' = "texts"
    /\ UNCHANGED <<args, input_ids, ret, err, thrown, object, fwdCalls,
                   seedCalls, resetCalls, pair>>
    /\ UNCHANGED <<stopping, training>>

\* lines 358-370: model.generate raises
DecodeError ==
    /\ pc = "loop"
    /\ genCalls' = Bump(genCalls)
    /\ passedState' = memory
    /\ thrown' = "DecoderError"
    /\ pc' = OnError(thrown').pc
    /\ err' = OnError(thrown').err
    /\ UNCHANGED <<args, input_ids, outputs, gen_texts, ret, object, rng,
                   fwdCalls, seedCalls, resetCalls, nFiltered, pair>>
    /\ UNCHANGED <<stopping, training>>

\* lines 372-374: batch_decode raises on what model.generate returned
BatchDecodeError ==
    /\ pc = "loop"
    /\ \E out \in DecoderResults(rng, input_ids, memory) : outputs' = out
    /\ genCalls' = Bump(genCalls)
    /\ passedState' = memory
    /\ rng' = IF rng.seeded THEN Advance(rng) ELSE rng
    /\ thrown' = "TokenizerError"
    /\ pc' = OnError(thrown').pc
    /\ err' = OnError(thrown').err
    /\ UNCHANGED <<args, input_ids, gen_texts, ret, object, fwdCalls,
                   seedCalls, resetCalls, nFiltered, pair>>
    /\ UNCHANGED <<stopping, training>>

FilterWithCap ==
    /\ pc = "texts"
    /\ LET kept == FilterTexts(StripTexts(gen_texts, args), args)
       IN  /\ IF MustRetry(kept)
              THEN /\ pc' = IF genCalls < 2 THEN "loop" ELSE "raised"
                   /\ err' = IF genCalls < 2 THEN err ELSE "RetryExhaustedError"
                   /\ outputs' = <<>>
                   /\ gen_texts' = <<>>
                   /\ UNCHANGED <<ret, rng, resetCalls>>
              ELSE /\ IF SeedGuard(args.seed)
                      THEN /\ rng' = reset_seed
                           /\ resetCalls' = Bump(resetCalls)
                      ELSE UNCHANGED <<rng, resetCalls>>
                   /\ ret' = Some(kept[1])
                   /\ pc' = "returned"
                   /\ err' = err
                   /\ gen_texts' = kept
                   /\ UNCHANGED outputs
    /\ UNCHANGED <<args, input_ids, thrown, object, genCalls,
                   fwdCalls, seedCalls, nFiltered, passedState, pair>>
    /\ UNCHANGED <<stopping, training>>

\* lines 376-394: strip, filter, then retry or return; on a retry the result
\* of the iteration is dropped (line 358 rebinds outputs)
Filter ==
    /\ pc = "texts"
    /\ LET kept == FilterTexts(StripTexts(gen_texts, args), args)
       IN  /\ IF MustRetry(kept)
              THEN /\ pc' = "loop"
                   /\ outputs' = <<>>
                   /\ gen_texts' = <<>>
                   /\ UNCHANGED <<ret, rng, resetCalls>>
              ELSE /\ IF SeedGuard(args.seed)
                      THEN /\ rng' = reset_seed
                           /\ resetCalls' = Bump(resetCalls)
                      ELSE UNCHANGED <<rng, resetCalls>>
                   /\ ret' = Some(kept[1])
                   /\ pc' = "returned"
                   /\ gen_texts' = kept
                   /\ UNCHANGED outputs
    /\ UNCHANGED <<args, input_ids, err, thrown, object, genCalls,
                   fwdCalls, seedCalls, nFiltered, passedState, pair>>
    /\ UNCHANGED <<stopping, training>>

\* control is back at the caller; the frame of the call is gone
Finish ==
    /\ pc \in {"returned", "raised"}
    /\ pc' = "idle"
    /\ args' = DefaultArgs
    /\ input_ids' = None
    /\ outputs' = <<>>
    /\ gen_texts' = <<>>
    /\ ret' = None
    /\ err' = "none"
    /\ thrown' = "none"
    /\ genCalls' = 0
    /\ fwdCalls' = 0
    /\ seedCalls' = 0
    /\ resetCalls' = 0
    /\ nFiltered' = 0
    /\ passedState' = None
    /\ repeat' = FALSE
    /\ prevRet' = None
    /\ UNCHANGED <<object, rng>>
    /\ UNCHANGED <<stopping, training>>

Step ==
    \/ SetSeed
    \/ SetMode
    \/ SetModeError
    \/ Decode
    \/ DecodeError
    \/ BatchDecodeError
    \/ Filter

Next ==
    \/ \E a \in Args : Start(a)
    \/ \E a \in Args : StartTokenizerError(a)
    \/ Step
    \/ Finish

Spec == Init /\ [][Next]_vars

\* one call on a fresh object, possibly followed by the same call again
PairNext ==
    \/ \E a \in Args : Start(a)
    \/ \E a \in Args : StartTokenizerError(a)
    \/ Repeat
    \/ Step

PairSpec == Init /\ [][PairNext]_vars

\* one call on a fresh object.  generate is synchronous and single-threaded:
\* a call in progress keeps running, whatever the external calls answer
LiveNext ==
    \/ \E a \in Args : Start(a)
    \/ \E a \in Args : StartTokenizerError(a)
    \/ Step

LiveInit == Init /\ line_by_line = None

LiveSpec == LiveInit /\ [][LiveNext]_vars /\ WF_vars(Step)

\* ------------------------------------------------ SingleStoppingCriteria
\* lines 771-774: SingleStoppingCriteria(tokenizer, target_sequence, prompt)
StopConstruct(t, p) ==
    /\ stop_pc = "new"
    /\ criteria' = [target_sequence |-> t, prompt |-> p]
    /\ stop_pc' = "ready"
    /\ UNCHANGED <<stop_ids, stop_ret, generation, object, rng, training>>

\* lines 776-784: __call__(input_ids, scores); the decoder hands over the
\* input of the generation (BOS or not, then the prompt) followed by the
\* tokens generated so far
StopCall(bos, gen) ==
    /\ stop_pc \in {"ready", "called"}
    /\ stop_ids' = (IF bos THEN <<BosId>> ELSE <<>>) \o Tokenize(criteria.prompt) \o gen
    /\ LET generated_text == str_replace(decode(stop_ids'), criteria.prompt)
       IN  stop_ret' = Some(Contains(criteria.target_sequence, generated_text))
    /\ stop_pc' = "called"
    /\ UNCHANGED <<criteria, generation, object, rng, training>>

StopNext ==
    \/ \E t \in StopTexts, p \in StopTexts : StopConstruct(t, p)
    \/ \E bos \in BOOLEAN, gen \in TokenSeqs : StopCall(bos, gen)

StopSpec == Init /\ [][StopNext]_vars

\* ------------------------------------------------------------------ train
\* lines 521-564: train(...) called; freeze_layers is a local name that is
\* bound only by line 524 (None stands for the unbound name)
TrainStart(a) ==
    /\ train_pc = "idle"
    /\ train_args' = a
    /\ freeze_layers' = IF a.num_layers_freeze # None THEN Some(TRUE) ELSE None
    /\ line_by_line' = Some(a.line_by_line)
    /\ train_pc' = "freeze"
    /\ train_err' = "none"
    /\ fitCalls' = 0
    /\ UNCHANGED <<generation, memory, rng, stopping>>

\* lines 566-584
TrainFreeze ==
    /\ train_pc = "freeze"
    /\ IF freeze_layers = None
       THEN /\ train_pc' = "raised"
            /\ train_err' = "UnboundLocalError"
            /\ UNCHANGED freeze_layers
       ELSE IF TruthyBool(freeze_layers)
       THEN /\ freeze_layers' = Some(TRUE)
            /\ IF /\ TruthyInt(train_args.num_layers_freeze)
                  /\ ~(train_args.num_layers_freeze[1] < n_layer)
               THEN train_pc' = "raised" /\ train_err' = "AssertionError"
               ELSE train_pc' = "seed" /\ UNCHANGED train_err
       ELSE /\ train_pc' = "seed"
            /\ UNCHANGED <<freeze_layers, train_err>>
    /\ UNCHANGED <<train_args, fitCalls, generation, object, rng, stopping>>

\* lines 622-623
TrainSeed ==
    /\ train_pc = "seed"
    /\ rng' = IF SeedGuard(train_args.seed) THEN set_seed(train_args.seed[1]) ELSE rng
    /\ train_pc' = "fit"
    /\ UNCHANGED <<train_args, freeze_layers, train_err, fitCalls,
                   generation, object, stopping>>

\* lines 664-728: AIGProgressBar(..., freeze_layers, num_layers_freeze, ...)
\* is built and trainer.fit returns
TrainFit ==
    /\ train_pc = "fit"
    /\ fitCalls' = 1
    /\ train_pc' = "reset"
    /\ UNCHANGED <<train_args, freeze_layers, train_err, generation, object,
                   rng, stopping>>

\* line 728: trainer.fit raises
TrainFitError ==
    /\ train_pc = "fit"
    /\ fitCalls' = 1
    /\ train_pc' = "raised"
    /\ train_err' = "TrainerError"
    /\ UNCHANGED <<train_args, freeze_layers, generation, object, rng, stopping>>

\* lines 741-742
TrainReset ==
    /\ train_pc = "reset"
    /\ rng' = IF SeedGuard(train_args.seed) THEN reset_seed ELSE rng
    /\ train_pc' = "returned"
    /\ UNCHANGED <<train_args, freeze_layers, train_err, fitCalls,
                   generation, object, stopping>>

\* control is back at the caller; the locals of train are gone
TrainFinish ==
    /\ train_pc \in {"returned", "raised"}
    /\ train_pc' = "idle"
    /\ train_args' = DefaultTrainArgs
    /\ freeze_layers' = None
    /\ train_err' = "none"
    /\ fitCalls' = 0
    /\ UNCHANGED <<generation, object, rng, stopping>>

TrainNext ==
    \/ \E a \in TrainArgs : TrainStart(a)
    \/ TrainFreeze
    \/ TrainSeed
    \/ TrainFit
    \/ TrainFitError
    \/ TrainReset
    \/ TrainFinish

TrainSpec == Init /\ [][TrainNext]_vars

\* ----------------------------------------------------------------- claims
TooLarge == args.prompt # <<>> /\ Len(Tokenize(args.prompt)) >= MaxCtx

\* C1: a call with nonempty_output set that returns, returns a string longer
\* than min_length when min_length is set, and of length at least 1 when
\* min_length is unset.
C1_ReturnedLength ==
    (pc = "returned" /\ args.nonempty_output) =>
        /\ ret # None
        /\ args.min_length # None => Len(ret[1]) > args.min_length[1]
        /\ args.min_length = None => Len(ret[1]) >= 1

C1_Witness ==
    /\ pc = "returned"
    /\ args.nonempty_output
    /\ args.min_length = Some(1)
    /\ genCalls = 2
    /\ Len(ret[1]) = 2

\* C2 as stated: a non-empty prompt at or above the context limit makes generate
\* fail with InputTooLargeError, no decoder having been invoked.
C2_InputTooLargeError ==
    (TooLarge /\ pc # "idle" /\ thrown = "none") =>
        /\ pc = "raised"
        /\ err = "InputTooLargeError"
        /\ genCalls = 0
        /\ fwdCalls = 0

\* C2 amended: such a prompt makes generate fail before any decoder invocation
\* (model.generate or the rnn forward call), and the failure is the
\* AssertionError of the assert statement unless the tokenizer raised first.
C2_AssertionBeforeDecoder ==
    (TooLarge /\ pc # "idle") =>
        /\ pc = "raised"
        /\ genCalls = 0
        /\ fwdCalls = 0
        /\ thrown = "none" => err = "AssertionError"

C2_Witness ==
    /\ pc = "raised"
    /\ err = "AssertionError"
    /\ Len(Tokenize(args.prompt)) = MaxCtx
    /\ args.mode = "rnn"

\* C3: when generate returns, the decoder result it returns from is the first
\* one of the call with a surviving candidate, so the number of model.generate
\* invocations is the index of that result, and the value returned is the
\* first surviving candidate of that result.
C3_FirstSurvivingResult ==
    pc = "returned" =>
        /\ HasSurvivor(outputs, args)
        /\ ret = Some(FirstSurvivor(outputs, args))
        /\ genCalls < MaxCalls => nFiltered = genCalls - 1

C3_Witness ==
    /\ pc = "returned"
    /\ genCalls = 3
    /\ nFiltered = 2
    /\ Len(outputs) = 2
    /\ ~LengthOk(Cleaned(outputs, args)[1], args)
    /\ ret = Some(Cleaned(outputs, args)[2])

\* C4: the retry loop has no cap: a decoder result without a surviving
\* candidate always leads back to another decoder invocation, however many
\* came before, and never to a return or an error; a result with a surviving
\* candidate leads to the return; and the call only returns on such a result.
C4_NoRetryCap ==
    /\ [][pc = "texts" =>
            IF HasSurvivor(outputs, args) THEN pc' = "returned" ELSE pc' = "loop"]_vars
    /\ (pc = "texts" /\ HasSurvivor(outputs, args)) ~> (pc = "returned")
    /\ (pc = "loop") ~> (pc \in {"texts", "raised"})
    /\ [](pc = "returned" => HasSurvivor(outputs, args))

C4_Witness ==
    /\ pc = "loop"
    /\ genCalls = MaxCalls
    /\ nFiltered = MaxCalls

\* C5: a call with a seed that repeats the call that just returned, with the
\* same arguments and nothing in between, returns what that call returned.
C5_SeededRepeatSameOutput ==
    (pc = "returned" /\ repeat /\ args.seed # None) => ret = prevRet

\* C6: when a call with a seed returns, reset_seed has been called after the
\* last decoder invocation and the global random state is not seeded.
C6_ResetBeforeReturn ==
    (pc = "returned" /\ args.seed # None) =>
        /\ resetCalls = 1
        /\ ~rng.seeded

\* C7: when a call with a seed has ended, by a return or by an error, the
\* global random state is not left seeded.
C7_RestoredOnEveryExit ==
    (pc \in {"returned", "raised"} /\ args.seed # None) => ~rng.seeded

\* C8: an error raised by the tokenizer or the decoder ends the call in the
\* step that raises it, reaches the caller as the error that was raised, and
\* no step of the call follows it.
C8_ErrorsPropagate ==
    [][/\ thrown' # "none" => (pc' = "raised" /\ err' = thrown')
       /\ thrown # "none" => pc' = "idle"]_vars

C8_Witness ==
    /\ pc = "raised"
    /\ thrown = "DecoderError"
    /\ err = "DecoderError"
    /\ genCalls = 2

\* C9: a call with lstrip=True that returns, returns a string that does not
\* begin with a whitespace character.
C9_NoLeadingWhitespace ==
    (pc = "returned" /\ args.lstrip) =>
        (ret[1] = <<>> \/ Head(ret[1]) \notin Whitespace)

C9_Witness ==
    /\ pc = "returned"
    /\ args.lstrip
    /\ outputs[1] = <<SpaceId, SpaceId>>
    /\ ret = Some(<<>>)

\* C10: a call given a seed (seed is not None) has seeded the global random
\* state exactly once by the time a decoder is invoked, and never again.
C10_SeededExactlyOnce ==
    (args.seed # None /\ (genCalls > 0 \/ fwdCalls > 0)) => seedCalls = 1

\* C11 as stated: with nonempty_output set, the filter step keeps exactly the
\* candidates of length >= min_length, and with min_length unset exactly the
\* candidates of at least 1 character.
C11_KeepsAtLeastMinLength ==
    [][(pc = "texts" /\ args.nonempty_output) =>
          gen_texts' = SelectSeq(Cleaned(outputs, args),
                                 LAMBDA t : IF args.min_length # None
                                            THEN Len(t) >= args.min_length[1]
                                            ELSE Len(t) >= 1)]_vars

\* C11 amended: the filter step keeps exactly the candidates longer than
\* min_length when min_length is a non-zero number, and exactly the candidates
\* of at least 1 character when min_length is unset or 0.
C11_KeepsLongerThanMinLength ==
    [][(pc = "texts" /\ args.nonempty_output) =>
          gen_texts' = SelectSeq(Cleaned(outputs, args),
                                 LAMBDA t : IF args.min_length \notin {None, Some(0)}
                                            THEN Len(t) > args.min_length[1]
                                            ELSE Len(t) >= 1)]_vars

C11_Witness ==
    /\ pc = "returned"
    /\ args.nonempty_output
    /\ args.min_length = Some(1)
    /\ Len(outputs) = 2
    /\ Len(Cleaned(outputs, args)[1]) = 1
    /\ gen_texts = <<Cleaned(outputs, args)[2]>>

\* C12: a call in mode "transformer" leaves the memory of the object unchanged
\* and hands no recurrent state to model.generate, whatever calls came before;
\* a call in mode "rnn" hands it the memory of the object.
C12_TransformerPassesNoState ==
    [][(pc \in {"seed", "mode", "loop", "texts"}) =>
          ( /\ (args.mode = "transformer") => (memory' = memory)
            /\ (args.mode = "transformer" /\ pc = "loop") => (passedState' = None)
            /\ (args.mode = "rnn" /\ pc = "loop") => (passedState' = memory) )]_vars

\* C13: the input handed to the decoder is nothing for an empty prompt without
\* BOS, the single BOS token for an empty prompt with BOS, and otherwise the
\* prompt tokens preceded by one BOS token iff BOS is required; BOS is required
\* iff prepend_bos is true, or prepend_bos is not given and line_by_line is true.
C13_DecoderInput ==
    LET required == \/ args.prepend_bos = Some(TRUE)
                    \/ args.prepend_bos = None /\ line_by_line = Some(TRUE)
        tokens == Tokenize(args.prompt)
    IN  pc \in {"seed", "mode", "loop", "texts", "returned"} =>
            input_ids = IF args.prompt = <<>>
                        THEN (IF required THEN Some(<<BosId>>) ELSE None)
                        ELSE (IF required THEN Some(<<BosId>> \o tokens)
                              ELSE Some(tokens))

C13_Witness ==
    /\ pc = "texts"
    /\ args.prepend_bos = Some(FALSE)
    /\ line_by_line = Some(TRUE)
    /\ args.prompt # <<>>
    /\ input_ids = Some(Tokenize(args.prompt))

\* C15: every token sequence handed to the decoder is at most as long as the
\* context limit: the prompt tokens are strictly fewer than the limit and at
\* most one token is added to them.
C15_InputWithinContext ==
    (genCalls > 0 /\ input_ids # None) =>
        /\ Len(input_ids[1]) <= MaxCtx
        /\ Len(Tokenize(args.prompt)) < MaxCtx
        /\ Len(input_ids[1]) <= Len(Tokenize(args.prompt)) + 1

C15_Witness ==
    /\ genCalls > 0
    /\ input_ids # None
    /\ Head(input_ids[1]) = BosId
    /\ Len(input_ids[1]) = MaxCtx

\* C14: SingleStoppingCriteria returns True exactly when the target is a
\* substring of the text generated so far beyond the prompt, and False
\* otherwise; a call leaves target_sequence and prompt as they were.
C14_StopsExactlyOnTarget ==
    [][(stop_pc \in {"ready", "called"}) =>
          LET start == (IF stop_ids' # <<>> /\ Head(stop_ids') = BosId THEN 1 ELSE 0)
                       + Len(Tokenize(criteria.prompt))
              beyond == SubSeq(stop_ids', start + 1, Len(stop_ids'))
          IN  /\ criteria' = criteria
              /\ stop_ret' = Some(Contains(criteria.target_sequence, decode(beyond)))]_vars

\* C16: train called with num_layers_freeze=None gets to trainer.fit with
\* layer freezing off, and no call of train reads freeze_layers before it has
\* a value.
C16_FitReachedWithoutFreezing ==
    /\ train_err # "UnboundLocalError"
    /\ (train_args.num_layers_freeze = None /\ train_pc \in {"returned", "raised"}) =>
           (fitCalls > 0 /\ freeze_layers = Some(FALSE))

====
